---------------------------- MODULE Spec2Model ----------------------------
(***************************************************************************)
(* Provider-availability cache and refresh-decision engine of the IMDb     *)
(* streaming checker: the SQLite film cache (tmdb_api.py), the resolver    *)
(* get_providers_fresh / get_providers_cached, and the Flask handlers      *)
(* process, delete_file and delete_all with the watchlist metadata         *)
(* (app.py).                                                               *)
(*                                                                         *)
(* Dates are day numbers (date.today().isoformat() compares equal exactly  *)
(* when the days are equal); Python's None is the number 0, which is no    *)
(* day and no TMDb id.  Strings that the code inspects character by        *)
(* character (file names, title types) are sequences of one-character      *)
(* strings.                                                                *)
(***************************************************************************)
EXTENDS Integers, Sequences, FiniteSets, TLC

VARIABLES
    today,       \* date.today() of the running process
    files,       \* uploads/<name>: the watchlist files, by name
    meta,        \* uploads/<name>.json: the watchlist metadata files, by name
    film_cache,  \* cache.db, table film_cache: imdb_id -> row
    resp,        \* the last call and what it did (observation only)
    calls        \* the calls of get_providers_fresh under way, by thread

vars == <<today, files, meta, film_cache, resp, calls>>

-----------------------------------------------------------------------------
(* Bounds of the model *)

MaxIds == 2
MaxDay == 2
MaxNames == 1
MaxRegionsLen == 2

None == 0

Ids == 1..MaxIds
Days == 1..MaxDay
Regions == {"GB", "US"}
Providers == {"Netflix"}

SeqsUpTo(S, n) == UNION {[1..k -> S] : k \in 0..n}

NameLists == SeqsUpTo(Providers, MaxNames)
RegionLists == SeqsUpTo(Regions, MaxRegionsLen)

Range(s) == {s[k] : k \in 1..Len(s)}

-----------------------------------------------------------------------------
(* Python strings, as sequences of characters *)

Str_csv == <<".", "c", "s", "v">>

lower_char(c) ==
    CASE c = "A" -> "a" [] c = "B" -> "b" [] c = "C" -> "c" [] c = "E" -> "e"
      [] c = "M" -> "m" [] c = "S" -> "s" [] c = "T" -> "t" [] c = "V" -> "v"
      [] OTHER -> c

lower(s) == [k \in 1..Len(s) |-> lower_char(s[k])]

endswith(s, suffix) ==
    /\ Len(s) >= Len(suffix)
    /\ SubSeq(s, Len(s) - Len(suffix) + 1, Len(s)) = suffix

contains(s, sub) ==
    \E k \in 1..(Len(s) - Len(sub) + 1) : SubSeq(s, k, k + Len(sub) - 1) = sub

RECURSIVE lstrip(_)
lstrip(s) == IF s # <<>> /\ Head(s) = " " THEN lstrip(Tail(s)) ELSE s

RECURSIVE rstrip(_)
rstrip(s) ==
    IF s # <<>> /\ s[Len(s)] = " " THEN rstrip(SubSeq(s, 1, Len(s) - 1)) ELSE s

strip(s) == rstrip(lstrip(s))

-----------------------------------------------------------------------------
(* tmdb_api.py: the SQLite cache *)

\* A value of providers_block.get(region): nothing, the old bare list, or the
\* new {"last_updated", "names"} object (a missing key reads as its default).
NoEntry == [shape |-> "none", last_updated |-> None, names |-> <<>>]
ListEntry(names) == [shape |-> "list", last_updated |-> None, names |-> names]
DictEntry(last_updated, names) ==
    [shape |-> "dict", last_updated |-> last_updated, names |-> names]

\* json.dumps of a providers block: the text of a JSON object, held as its
\* set of key/value members.
json_dumps(block) == {<<r, block[r]>> : r \in DOMAIN block}

\* json.loads of that text.
json_loads(text) ==
    [r \in {m[1] : m \in text} |-> (CHOOSE m \in text : m[1] = r)[2]]

NoRow == [found |-> FALSE, tmdb_id |-> None, providers |-> <<>>]

sql_load(db, imdb_id) ==
    IF imdb_id \notin DOMAIN db
    THEN NoRow
    ELSE [found |-> TRUE,
          tmdb_id |-> db[imdb_id].tmdb_id,
          providers |-> json_loads(db[imdb_id].providers_json)]

\* INSERT OR IGNORE: a row already stored for the id is kept.
sql_save_ignore(db, imdb_id, data) ==
    IF imdb_id \in DOMAIN db THEN db
    ELSE [i \in DOMAIN db \cup {imdb_id} |->
            IF i = imdb_id
            THEN [tmdb_id |-> data.tmdb_id,
                  providers_json |-> json_dumps(data.providers)]
            ELSE db[i]]

\* A save that keeps the regions of the stored row that the data lacks.
sql_save_merge(db, imdb_id, data) ==
    LET old == IF imdb_id \in DOMAIN db
               THEN json_loads(db[imdb_id].providers_json)
               ELSE <<>>
        merged == [r \in DOMAIN old \cup DOMAIN data.providers |->
                      IF r \in DOMAIN data.providers /\ data.providers[r].shape = "dict"
                      THEN data.providers[r]
                      ELSE IF r \in DOMAIN old THEN old[r] ELSE data.providers[r]]
    IN  [i \in DOMAIN db \cup {imdb_id} |->
            IF i = imdb_id
            THEN [tmdb_id |-> data.tmdb_id,
                  providers_json |-> json_dumps(merged)]
            ELSE db[i]]

sql_save(db, imdb_id, data) ==
    [i \in DOMAIN db \cup {imdb_id} |->
        IF i = imdb_id
        THEN [tmdb_id |-> data.tmdb_id,
              providers_json |-> json_dumps(data.providers)]
        ELSE db[i]]

sql_delete(db, imdb_id) == [i \in DOMAIN db \ {imdb_id} |-> db[i]]

RECURSIVE sql_delete_each(_, _)
sql_delete_each(db, ids) ==
    IF ids = <<>> THEN db
    ELSE sql_delete_each(sql_delete(db, Head(ids)), Tail(ids))


-----------------------------------------------------------------------------
(* tmdb_api.py: IMDb title type -> TMDb media type *)

movie_types ==
    { <<"m","o","v","i","e">>, <<"s","h","o","r","t">>, <<"v","i","d","e","o">>,
      <<"t","v","m","o","v","i","e">> }

tv_types ==
    { <<"t","v","s","e","r","i","e","s">>,
      <<"t","v","m","i","n","i","s","e","r","i","e","s">>,
      <<"t","v","e","p","i","s","o","d","e">>,
      <<"t","v","s","p","e","c","i","a","l">> }

imdb_type_to_tmdb_type(imdb_type) ==
    LET t == strip(lower(imdb_type))
    IN  IF t \in movie_types THEN "movie"
        ELSE IF t \in tv_types THEN "tv"
        ELSE IF contains(t, <<"t", "v">>) THEN "tv"
        ELSE "movie"

-----------------------------------------------------------------------------
(* tmdb_api.py: the resolver *)

dict_get(d, k) == IF k \in DOMAIN d THEN d[k] ELSE NoEntry

\* d[k] = v that forgets the other keys of d.
dict_set_only(d, k, v) == [x \in {k} |-> v]

dict_set(d, k, v) == [x \in DOMAIN d \cup {k} |-> IF x = k THEN v ELSE d[x]]

\* (last_updated, names) of a cached entry of either schema.
extract_entry(entry) ==
    IF entry.shape = "none" THEN <<None, <<>>>>
    ELSE IF entry.shape = "list" THEN <<None, entry.names>>
    ELSE IF entry.shape = "dict" THEN <<entry.last_updated, entry.names>>
    ELSE <<None, <<>>>>

\* What the TMDb service answers during one call of the resolver: `find` to
\* get_tmdb_id, avail[region] to get_watch_providers.  ok = FALSE is a request
\* that raises (requests.get or .json() fails); get_watch_providers' own
\* try/except turns a missing region or tier into the empty list.
\* The TMDb catalogue id of a title, when the find endpoint knows the title.
TmdbOf(imdb_id) == imdb_id

FindAnswers(imdb_id) ==
    {[ok |-> TRUE, id |-> None], [ok |-> FALSE, id |-> None],
     [ok |-> TRUE, id |-> TmdbOf(imdb_id)]}
AvailAnswers == {[ok |-> TRUE, names |-> n] : n \in NameLists}
                  \cup {[ok |-> FALSE, names |-> <<>>]}

get_tmdb_id(imdb_id, net) == net.find

get_watch_providers(tmdb_id, media_type, region, net) ==
    IF tmdb_id = None THEN [ok |-> TRUE, names |-> <<>>] ELSE net.avail[region]

\* The test that serves a region from the cache.
is_fresh_never(last_updated, today_str) == FALSE

is_fresh(last_updated, today_str) == last_updated = today_str

\* Whether get_tmdb_id is called: some requested region needs a fetch and no
\* id is cached.
need_tmdb_id_any(need_any_fetch, tmdb_id) == need_any_fetch

need_tmdb_id(need_any_fetch, tmdb_id) == need_any_fetch /\ tmdb_id = None

\* The entry written for a refreshed region.
fresh_entry_undated(today_str, names) == DictEntry(None, names)

fresh_entry(today_str, names) == DictEntry(today_str, names)

\* The loop of get_providers_fresh over the requested regions.  st holds the
\* locals: providers_block, results, the lookups made, and whether a request
\* raised (which leaves the function before sql_save).
RECURSIVE fresh_loop(_, _, _, _, _, _)
fresh_loop(regions, st, tmdb_id, media_type, today_str, net) ==
    IF regions = <<>> \/ st.raised THEN st
    ELSE
      LET region == Head(regions)
          e == extract_entry(dict_get(st.block, region))
          last_updated == e[1]
          ans == get_watch_providers(tmdb_id, media_type, region, net)
          next ==
            IF is_fresh(last_updated, today_str)
            THEN [st EXCEPT !.results = dict_set(@, region, e[2])]
            ELSE IF tmdb_id = None
            THEN [st EXCEPT
                    !.block = dict_set(@, region, fresh_entry(today_str, <<>>)),
                    !.results = dict_set(@, region, <<>>)]
            ELSE IF ~ans.ok
            THEN [st EXCEPT
                    !.lookups = @ \cup {<<tmdb_id, media_type, region>>},
                    !.raised = TRUE]
            ELSE [st EXCEPT
                    !.lookups = @ \cup {<<tmdb_id, media_type, region>>},
                    !.block = dict_set(@, region,
                                      fresh_entry(today_str, ans.names)),
                    !.results = dict_set(@, region, ans.names)]
      IN  fresh_loop(Tail(regions), next, tmdb_id, media_type, today_str, net)

get_providers_fresh(db, imdb_id, imdb_type, regions, today_str, net) ==
    LET cached == sql_load(db, imdb_id)
        need_any_fetch ==
            \E k \in 1..Len(regions) :
                extract_entry(dict_get(cached.providers, regions[k]))[1] # today_str
        find_called == need_tmdb_id(need_any_fetch, cached.tmdb_id)
        found == get_tmdb_id(imdb_id, net)
        tmdb_id == IF find_called THEN found.id ELSE cached.tmdb_id
        media_type == imdb_type_to_tmdb_type(imdb_type)
        st == fresh_loop(regions,
                         [block |-> cached.providers, results |-> <<>>,
                          lookups |-> {}, raised |-> FALSE],
                         tmdb_id, media_type, today_str, net)
    IN  IF find_called /\ ~found.ok
        THEN [raised |-> TRUE, db |-> db, tmdb_id |-> None, providers |-> <<>>,
              find_called |-> TRUE, lookups |-> {}]
        ELSE IF st.raised
        THEN [raised |-> TRUE, db |-> db, tmdb_id |-> None, providers |-> <<>>,
              find_called |-> find_called, lookups |-> st.lookups]
        ELSE [raised |-> FALSE,
              db |-> sql_save(db, imdb_id,
                              [tmdb_id |-> tmdb_id, providers |-> st.block]),
              tmdb_id |-> tmdb_id, providers |-> st.results,
              find_called |-> find_called, lookups |-> st.lookups]

get_providers_cached_stored_only(db, imdb_id, regions) ==
    LET cached == sql_load(db, imdb_id)
    IN  [tmdb_id |-> cached.tmdb_id,
         providers |->
            [region \in Range(regions) \cap DOMAIN cached.providers |->
                extract_entry(cached.providers[region])[2]]]

get_providers_cached(db, imdb_id, regions) ==
    LET cached == sql_load(db, imdb_id)
    IN  IF ~cached.found
        THEN [tmdb_id |-> None,
              providers |-> [region \in Range(regions) |-> <<>>]]
        ELSE [tmdb_id |-> cached.tmdb_id,
              providers |->
                [region \in Range(regions) |->
                    extract_entry(dict_get(cached.providers, region))[2]]]

-----------------------------------------------------------------------------
(* The record of the last call *)

NoSaved == [tmdb_id |-> None, providers |-> <<>>]

\* The threads that serve requests, and a thread that is in no call.
CallIds == {1, 2}
IdleCall ==
    [pc |-> "idle", regions |-> <<>>, loaded |-> <<>>, seen |-> 0,
     net |-> [find |-> [ok |-> TRUE, id |-> None], avail |-> <<>>]]
NoCalls == [c \in CallIds |-> IdleCall]

NoResp ==
    [op |-> "none", status |-> 0, file |-> <<>>, is_new |-> FALSE,
     overwrite |-> FALSE, regions |-> {}, refresh_regions |-> {},
     cached_regions |-> {}, stale_ids |-> {}, deleted_ids |-> {},
     find_calls |-> {}, lookups |-> {},
     imdb_id |-> None, region_list |-> <<>>, before |-> NoRow,
     raised |-> FALSE, tmdb_id |-> None, providers |-> <<>>,
     results |-> <<>>, mode |-> "", old_ids |-> {},
     uploaded |-> FALSE, source |-> "", answers |-> <<>>,
     saved |-> NoSaved, rows |-> <<>>, films |-> <<>>]

\* Title types as parse_imdb_csv hands them to the resolver.
Type_Movie == <<"M","o","v","i","e">>
Type_TV_Series == <<"T","V"," ","S","e","r","i","e","s">>
FilmTypes == {Type_Movie, Type_TV_Series}

-----------------------------------------------------------------------------
(* The resolver alone: any cached row, any requested regions, any answers *)

\* The entries a cache row can hold on a given day: old bare lists, and
\* objects written on that day or before (or without a date).
CachedEntries(day) ==
    {ListEntry(n) : n \in NameLists}
      \cup {DictEntry(d, n) : d \in (1..day) \cup {None}, n \in NameLists}

Blocks(day) == UNION {[R -> CachedEntries(day)] : R \in SUBSET Regions}

Rows(imdb_id, day) ==
    {[tmdb_id |-> t, providers_json |-> json_dumps(b)] :
        t \in {None, TmdbOf(imdb_id)}, b \in Blocks(day)}

NetAnswers(imdb_id) ==
    [find : FindAnswers(imdb_id), avail : [Regions -> AvailAnswers]]

\* The title the resolver is called for.
ResolveIds == {1}

InitResolve ==
    /\ today \in Days
    /\ files = <<>>
    /\ meta = <<>>
    /\ film_cache \in {<<>>} \cup
         UNION {[{i} -> Rows(i, today)] : i \in ResolveIds}
    /\ resp = NoResp
    /\ calls = NoCalls

ResolveFresh(imdb_id, imdb_type, regions, net) ==
    /\ resp.op = "none"
    /\ \E r \in {get_providers_fresh(film_cache, imdb_id, imdb_type, regions,
                                     today, net)} :
        /\ film_cache' = r.db
        /\ resp' = [NoResp EXCEPT
                      !.op = "fresh", !.imdb_id = imdb_id,
                      !.region_list = regions,
                      !.before = sql_load(film_cache, imdb_id),
                      !.raised = r.raised, !.tmdb_id = r.tmdb_id,
                      !.providers = r.providers,
                      !.find_calls = IF r.find_called THEN {imdb_id} ELSE {},
                      !.lookups = {<<imdb_id, l[1], l[2], l[3]>> : l \in r.lookups},
                      !.answers = [region \in {l[3] : l \in r.lookups} |->
                                      net.avail[region].names]]
        /\ UNCHANGED <<today, files, meta, calls>>

ResolveCached(imdb_id, regions) ==
    LET r == get_providers_cached(film_cache, imdb_id, regions)
    IN  /\ resp.op = "none"
        /\ resp' = [NoResp EXCEPT
                      !.op = "cached", !.imdb_id = imdb_id,
                      !.region_list = regions,
                      !.before = sql_load(film_cache, imdb_id),
                      !.tmdb_id = r.tmdb_id, !.providers = r.providers]
        /\ UNCHANGED <<today, files, meta, film_cache, calls>>

NextResolve ==
    \/ \E imdb_id \in ResolveIds, imdb_type \in FilmTypes,
          regions \in RegionLists :
          \E net \in NetAnswers(imdb_id) :
             ResolveFresh(imdb_id, imdb_type, regions, net)
    \/ \E imdb_id \in ResolveIds, regions \in RegionLists :
          ResolveCached(imdb_id, regions)

SpecResolve == InitResolve /\ [][NextResolve]_vars

-----------------------------------------------------------------------------
(* The cache table alone: rows written and read back *)

\* The data handed to sql_save: an id or none, and a providers block of
\* either schema.
SavedData ==
    [tmdb_id : {None, TmdbOf(1)}, providers : Blocks(1)]

InitStore ==
    /\ today = 1
    /\ files = <<>>
    /\ meta = <<>>
    /\ film_cache = <<>>
    /\ resp = NoResp
    /\ calls = NoCalls

\* sql_save(imdb_id, data), the first and the second write of a run.
Save(imdb_id, data) ==
    /\ resp.op \in {"none", "save"}
    /\ film_cache' = sql_save(film_cache, imdb_id, data)
    /\ resp' = [NoResp EXCEPT
                  !.op = IF resp.op = "none" THEN "save" ELSE "save again",
                  !.imdb_id = imdb_id, !.saved = data,
                  !.before = sql_load(film_cache, imdb_id)]
    /\ UNCHANGED <<today, files, meta, calls>>

NextStore == \E imdb_id \in Ids, data \in SavedData : Save(imdb_id, data)

SpecStore == InitStore /\ [][NextStore]_vars

-----------------------------------------------------------------------------
(* Two threads in get_providers_fresh for the same title: each loads the     *)
(* row, asks the service, and saves the row it loaded with its regions       *)
(* refreshed                                                                 *)

\* The rows the title can have when the calls start: none, or a row whose
\* regions hold an old bare list or an entry dated today.
RaceRows ==
    {[tmdb_id |-> t, providers_json |-> json_dumps(b)] :
        t \in {None, TmdbOf(1)},
        b \in UNION {[R -> {ListEntry(<<>>), DictEntry(1, <<>>)}] :
                       R \in SUBSET Regions}}

\* The regions a call is made for.
RaceRegions == {<<"GB">>, <<"US">>, <<"GB", "US">>}

\* The service during a call: the find request answers or raises, the
\* availability requests answer.
RaceNets ==
    {net \in NetAnswers(1) : \A r \in Regions : net.avail[r].ok}

InitRace ==
    /\ today = 1
    /\ files = <<>>
    /\ meta = <<>>
    /\ film_cache \in {<<>>} \cup [{1} -> RaceRows]
    /\ resp = NoResp
    /\ calls = NoCalls

\* cached = sql_load(imdb_id) or {}: the thread reads the row; `seen` is the
\* number of saves made before it read.
Load(c, regions, net) ==
    /\ calls[c].pc = "idle"
    /\ calls' = [calls EXCEPT ![c] =
                   [pc |-> "loaded", regions |-> regions,
                    loaded |-> film_cache, seen |-> Len(resp.results),
                    net |-> net]]
    /\ resp' = [resp EXCEPT !.op = "race", !.imdb_id = 1]
    /\ UNCHANGED <<today, files, meta, film_cache>>

\* The rest of the call, on the row that was loaded: the requests, and
\* sql_save(imdb_id, cached) into the table as it is now.  resp.results
\* lists the threads in the order of their saves.
SaveLoaded(c) ==
    /\ calls[c].pc = "loaded"
    /\ \E r \in {get_providers_fresh(calls[c].loaded, 1, Type_Movie,
                                     calls[c].regions, today, calls[c].net)} :
          IF r.raised
          THEN /\ calls' = [calls EXCEPT ![c].pc = "raised"]
               /\ UNCHANGED <<film_cache, resp>>
          ELSE /\ film_cache' =
                     sql_save(film_cache, 1,
                              [tmdb_id |-> sql_load(r.db, 1).tmdb_id,
                               providers |-> sql_load(r.db, 1).providers])
               /\ calls' = [calls EXCEPT ![c].pc = "saved"]
               /\ resp' = [resp EXCEPT !.results = Append(@, c)]
    /\ UNCHANGED <<today, files, meta>>

NextRace ==
    \/ \E c \in CallIds, regions \in RaceRegions, net \in RaceNets :
          Load(c, regions, net)
    \/ \E c \in CallIds : SaveLoaded(c)

SpecRace == InitRace /\ [][NextRace]_vars

-----------------------------------------------------------------------------
(* imdb_parser.py: the rows of a file *)

MaxRows == 2

\* The header of an IMDb export, reduced to the columns the parser reads.
Columns ==
    <<"Position", "Const", "Title", "Title Type", "IMDb Rating",
      "Runtime (mins)", "Year", "Genres", "Directors">>

ColumnIndex(key) == CHOOSE k \in 1..Len(Columns) : Columns[k] = key

\* row.get(key, "") on a row of csv.DictReader.  A row is the line's number
\* of fields and their texts; DictReader fills the columns that a short line
\* does not reach with None, which row.get returns as it is.
row_get(row, key) ==
    IF ColumnIndex(key) <= row.n
    THEN [none |-> FALSE, s |-> row.text[key]]
    ELSE [none |-> TRUE, s |-> <<>>]

\* The "Title Type" normalisation.
type_map(type_raw) ==
    CASE
         type_raw = <<"m", "o", "v", "i", "e">> ->
           <<"M", "o", "v", "i", "e">>
      [] type_raw = <<"t", "v", "S", "e", "r", "i", "e", "s">> ->
           <<"T", "V", " ", "S", "e", "r", "i", "e", "s">>
      [] type_raw = <<"t", "v", "M", "i", "n", "i", "S", "e", "r", "i", "e", "s">> ->
           <<"T", "V", " ", "M", "i", "n", "i", "-", "S", "e", "r", "i", "e", "s">>
      [] type_raw = <<"t", "v", "E", "p", "i", "s", "o", "d", "e">> ->
           <<"T", "V", " ", "E", "p", "i", "s", "o", "d", "e">>
      [] type_raw = <<"s", "h", "o", "r", "t">> ->
           <<"S", "h", "o", "r", "t">>
      [] type_raw = <<"v", "i", "d", "e", "o">> ->
           <<"V", "i", "d", "e", "o">>
      [] type_raw = <<"t", "v", "M", "o", "v", "i", "e">> ->
           <<"T", "V", " ", "M", "o", "v", "i", "e">>
      [] OTHER -> type_raw

DigitChars == {"1", "7"}

digit(c) == IF c = "1" THEN 1 ELSE 7

RECURSIVE decimal(_)
decimal(t) ==
    IF t = <<>> THEN 0
    ELSE 10 * decimal(SubSeq(t, 1, Len(t) - 1)) + digit(t[Len(t)])

\* try: int(v.strip()) except: None.  A None field fails at .strip().
to_int(v) ==
    IF v.none THEN None
    ELSE LET t == strip(v.s)
         IN  IF t # <<>> /\ \A k \in 1..Len(t) : t[k] \in DigitChars
             THEN decimal(t)
             ELSE None

\* try: float(v.strip()) except: None, on texts without a decimal point.
to_float(v) ==
    IF v.none THEN None
    ELSE LET t == strip(v.s)
         IN  IF t # <<>> /\ \A k \in 1..Len(t) : t[k] \in DigitChars
             THEN decimal(t)
             ELSE None

\* s.split(",")
RECURSIVE split_comma(_)
split_comma(s) ==
    IF \A k \in 1..Len(s) : s[k] # "," THEN <<s>>
    ELSE LET k == CHOOSE j \in 1..Len(s) :
                     s[j] = "," /\ \A i \in 1..(j - 1) : s[i] # ","
         IN  <<SubSeq(s, 1, k - 1)>> \o split_comma(SubSeq(s, k + 1, Len(s)))

NotBlank(g) == strip(g) # <<>>

genres_of(genres_raw) ==
    IF genres_raw = <<>> THEN <<>>
    ELSE LET parts == SelectSeq(split_comma(genres_raw), NotBlank)
         IN  [k \in 1..Len(parts) |-> strip(parts[k])]

\* One pass of the loop over the rows: the row is skipped, or appended as a
\* film, or a .strip() outside try/except meets None and raises.
parse_row(row) ==
    LET const == row_get(row, "Const")
        title == row_get(row, "Title")
        type_raw == row_get(row, "Title Type")
        genres_raw == row_get(row, "Genres")
        directors == row_get(row, "Directors")
    IN  IF const.none THEN [kind |-> "raise"]
        ELSE IF strip(const.s) = <<>> THEN [kind |-> "skip"]
        ELSE IF title.none \/ type_raw.none \/ genres_raw.none
                  \/ directors.none
        THEN [kind |-> "raise"]
        ELSE [kind |-> "film",
              film |-> [imdb_id |-> strip(const.s),
                        title |-> strip(title.s),
                        type |-> type_map(strip(type_raw.s)),
                        position |-> to_int(row_get(row, "Position")),
                        year |-> to_int(row_get(row, "Year")),
                        genres |-> genres_of(strip(genres_raw.s)),
                        rating |-> to_float(row_get(row, "IMDb Rating")),
                        runtime |-> to_int(row_get(row, "Runtime (mins)")),
                        directors |-> strip(directors.s)]]

\* parse_imdb_csv on the rows of a file: the films, or ok = FALSE when a row
\* raises.
RECURSIVE parse_rows(_, _)
parse_rows(rows, films) ==
    IF rows = <<>> THEN [ok |-> TRUE, films |-> films]
    ELSE LET r == parse_row(Head(rows))
         IN  IF r.kind = "raise" THEN [ok |-> FALSE, films |-> <<>>]
             ELSE IF r.kind = "skip" THEN parse_rows(Tail(rows), films)
             ELSE parse_rows(Tail(rows), Append(films, r.film))

\* The lines of the model: an identifier that is blank, plain or padded, at
\* most one field among position, year, rating and runtime that is not a
\* number, and a line that is complete or stops after 1, 2 or 5 fields.
NumberColumns == {"Position", "Year", "IMDb Rating", "Runtime (mins)"}

LineText(const, bad) ==
    [key \in Range(Columns) |->
        IF key = "Const" THEN const
        ELSE IF key = bad THEN <<"x">>
        ELSE IF key \in NumberColumns THEN <<"1", "7">>
        ELSE IF key = "Title Type" THEN <<"m", "o", "v", "i", "e">>
        ELSE IF key = "Genres" THEN <<"D", ",", " ", "C">>
        ELSE <<"A">>]

Lines ==
    {[n |-> n, text |-> LineText(const, bad)] :
        n \in {1, 2, 5, Len(Columns)},
        const \in {<<" ">>, <<"t">>, <<" ", "u", " ">>},
        bad \in NumberColumns \cup {"none"}}

InitParse ==
    /\ today = 1
    /\ files = <<>>
    /\ meta = <<>>
    /\ film_cache = <<>>
    /\ resp = NoResp
    /\ calls = NoCalls

Parse(rows) ==
    /\ resp.op = "none"
    /\ \E r \in {parse_rows(rows, <<>>)} :
          resp' = [NoResp EXCEPT !.op = "parse", !.rows = rows,
                                 !.raised = ~r.ok, !.films = r.films]
    /\ UNCHANGED <<today, files, meta, film_cache, calls>>

NextParse == \E rows \in SeqsUpTo(Lines, MaxRows) : Parse(rows)

SpecParse == InitParse /\ [][NextParse]_vars

-----------------------------------------------------------------------------
(* From the file to the lookup: a line of each raw title type is parsed and  *)
(* its film resolved as the film loop of process resolves it                 *)

\* The raw title types of the parser's table.
RawTypes ==
    {<<"m", "o", "v", "i", "e">>,
     <<"t", "v", "S", "e", "r", "i", "e", "s">>,
     <<"t", "v", "M", "i", "n", "i", "S", "e", "r", "i", "e", "s">>,
     <<"t", "v", "E", "p", "i", "s", "o", "d", "e">>,
     <<"s", "h", "o", "r", "t">>,
     <<"v", "i", "d", "e", "o">>,
     <<"t", "v", "M", "o", "v", "i", "e">>}

KindLines ==
    {[n |-> Len(Columns),
      text |-> [LineText(<<"t">>, "none") EXCEPT !["Title Type"] = type_raw]] :
        type_raw \in RawTypes}

\* The film of the line is title 1 of the service.
ResolveParsed(row, regions, net) ==
    /\ resp.op = "none"
    /\ \E parsed \in {parse_rows(<<row>>, <<>>)} :
       \E r \in {get_providers_fresh(film_cache, 1, parsed.films[1].type,
                                     regions, today, net)} :
          /\ film_cache' = r.db
          /\ resp' = [NoResp EXCEPT
                        !.op = "kind", !.imdb_id = 1, !.rows = <<row>>,
                        !.films = parsed.films, !.region_list = regions,
                        !.raised = r.raised, !.tmdb_id = r.tmdb_id,
                        !.providers = r.providers,
                        !.find_calls = IF r.find_called THEN {1} ELSE {},
                        !.lookups = {<<1, l[1], l[2], l[3]>> : l \in r.lookups}]
    /\ UNCHANGED <<today, files, meta, calls>>

NextKind ==
    \E row \in KindLines, regions \in RegionLists, net \in NetAnswers(1) :
       ResolveParsed(row, regions, net)

SpecKind == InitParse /\ [][NextKind]_vars

-----------------------------------------------------------------------------
(* imdb_parser.py and the uploads folder, as app.py uses them *)

File_a == <<"a", ".", "c", "s", "v">>
File_B == <<"B", ".", "C", "S", "V">>
FileNames == {File_a, File_B}

\* The type of a title's row; a title has the same type in every export.
FilmType(imdb_id) == IF imdb_id % 2 = 1 THEN Type_Movie ELSE Type_TV_Series

\* The content of a watchlist file: whether parse_imdb_csv can read it, and
\* the titles of its rows (each title once, rows in ascending order).
Unparseable == [parses |-> FALSE, ids |-> {}]
Contents == {Unparseable} \cup {[parses |-> TRUE, ids |-> S] : S \in SUBSET Ids}

RECURSIVE SetToSeq(_)
SetToSeq(S) ==
    IF S = {} THEN <<>>
    ELSE LET x == CHOOSE y \in S : \A z \in S : y <= z
         IN  <<x>> \o SetToSeq(S \ {x})

RECURSIVE RegionsToSeq(_)
RegionsToSeq(S) ==
    IF S = {} THEN <<>>
    ELSE LET x == CHOOSE y \in S : TRUE IN <<x>> \o RegionsToSeq(S \ {x})

\* parse_imdb_csv(path): ok = FALSE when reading the file raises.
parse_imdb_csv(fs, name) ==
    IF fs[name].parses
    THEN LET rows == SetToSeq(fs[name].ids)
         IN  [ok |-> TRUE,
              films |-> [k \in 1..Len(rows) |->
                            [imdb_id |-> rows[k], type |-> FilmType(rows[k])]]]
    ELSE [ok |-> FALSE, films |-> <<>>]

film_ids(films) == {films[k].imdb_id : k \in 1..Len(films)}

\* The ids of `imdb_ids` that a watchlist other than `filename` holds: the
\* files of the folder whose name ends in ".csv", each parsed inside
\* try/except.
ids_in_other_watchlists(fs, filename, imdb_ids) ==
    LET other_watchlists ==
            {f \in DOMAIN fs : endswith(f, Str_csv) /\ f # filename}
    IN  UNION {imdb_ids \cap film_ids(parse_imdb_csv(fs, wl).films) :
                 wl \in other_watchlists}

load_watchlist_meta(m, csv_filename) ==
    IF csv_filename \in DOMAIN m THEN m[csv_filename] ELSE <<>>

save_watchlist_meta(m, csv_filename, regions_map) ==
    [f \in DOMAIN m \cup {csv_filename} |->
        IF f = csv_filename THEN regions_map ELSE m[f]]

remove_file(fs, name) == [f \in DOMAIN fs \ {name} |-> fs[f]]

-----------------------------------------------------------------------------
(* app.py: delete_file and delete_all *)

\* The ids delete_file hands to sql_delete.
delete_unshared_none(imdb_ids, shared_ids) == {}

delete_unshared(imdb_ids, shared_ids) == imdb_ids \ shared_ids

delete_file(filename) ==
    LET parsed == IF filename \in DOMAIN files
                  THEN parse_imdb_csv(files, filename)
                  ELSE [ok |-> FALSE, films |-> <<>>]
        imdb_ids == film_ids(parsed.films)
        shared_ids == ids_in_other_watchlists(files, filename, imdb_ids)
        doomed == delete_unshared(imdb_ids, shared_ids)
    IN  /\ files' = remove_file(files, filename)
        /\ meta' = remove_file(meta, filename)
        /\ film_cache' = sql_delete_each(film_cache, SetToSeq(doomed))
        /\ resp' = [NoResp EXCEPT !.op = "delete", !.status = 204,
                                  !.file = filename, !.deleted_ids = doomed]
        /\ UNCHANGED <<today, calls>>

delete_all ==
    /\ files' = <<>>
    /\ meta' = <<>>
    /\ film_cache' = <<>>
    /\ resp' = [NoResp EXCEPT !.op = "delete_all", !.status = 204]
    /\ UNCHANGED <<today, calls>>

-----------------------------------------------------------------------------
(* app.py: process *)

Modes == {"refresh", "use_saved", "auto"}

NoUpload == [valid |-> FALSE, filename |-> <<>>, content |-> Unparseable]
Uploads == {[valid |-> TRUE, filename |-> f, content |-> c] :
               f \in FileNames, c \in Contents}

\* What the TMDb service does during one process call: whether the find
\* endpoint knows the titles, the providers it lists, and the film from which
\* on its requests raise (down > number of films: none does).
ProcessNets(n) ==
    {[found |-> FALSE, names |-> <<>>, down |-> d] : d \in 1..(n + 1)}
      \cup [found : {TRUE}, names : NameLists, down : 1..(n + 1)]

film_net(net, k, imdb_id) ==
    IF k >= net.down
    THEN [find |-> [ok |-> FALSE, id |-> None],
          avail |-> [r \in Regions |-> [ok |-> FALSE, names |-> <<>>]]]
    ELSE [find |-> [ok |-> TRUE,
                    id |-> IF net.found THEN TmdbOf(imdb_id) ELSE None],
          avail |-> [r \in Regions |-> [ok |-> TRUE, names |-> net.names]]]

dict_update(a, b) ==
    [x \in DOMAIN a \cup DOMAIN b |-> IF x \in DOMAIN b THEN b[x] ELSE a[x]]

\* The ids whose cache file the overwrite branch removes: in the old content,
\* not in the new content, not in another watchlist.
old_only_ids_ignoring_new(old_imdb_ids, new_ids, ids_in_other_lists) ==
    old_imdb_ids \ ids_in_other_lists

old_only_ids(old_imdb_ids, new_ids, ids_in_other_lists) ==
    {i \in old_imdb_ids : i \notin new_ids /\ i \notin ids_in_other_lists}

\* "Refresh vs cached logic".
refresh_decision_mode_only(is_new_upload_selected, regions, existing_dates, refresh_mode) ==
    [refresh_regions |->
        IF is_new_upload_selected THEN regions
        ELSE {r \in regions : refresh_mode = "refresh"},
     cached_regions |->
        IF is_new_upload_selected THEN {}
        ELSE {r \in regions : refresh_mode # "refresh"}]

refresh_decision(is_new_upload_selected, regions, existing_dates, refresh_mode) ==
    IF is_new_upload_selected
    THEN [refresh_regions |-> regions, cached_regions |-> {}]
    ELSE [refresh_regions |->
            {r \in regions :
                r \notin DOMAIN existing_dates \/ refresh_mode = "refresh"},
          cached_regions |->
            {r \in regions :
                r \in DOMAIN existing_dates /\ refresh_mode # "refresh"}]

\* "Build provider data for every film": st holds the cache, the results so
\* far, the requests made, and whether a request raised (which leaves the
\* handler).
RECURSIVE process_films(_, _, _, _, _, _, _, _)
process_films(films, k, st, regions, refresh_regions, cached_regions, today_str, net) ==
    IF k > Len(films) \/ st.raised THEN st
    ELSE
      LET film == films[k]
          fresh == get_providers_fresh(st.db, film.imdb_id, film.type,
                                       RegionsToSeq(refresh_regions), today_str,
                                       film_net(net, k, film.imdb_id))
          db1 == IF refresh_regions # {} THEN fresh.db ELSE st.db
          raised == refresh_regions # {} /\ fresh.raised
          cached == get_providers_cached(db1, film.imdb_id,
                                         RegionsToSeq(cached_regions))
          p1 == IF refresh_regions # {} THEN fresh.providers ELSE <<>>
          p2 == IF cached_regions # {} THEN dict_update(p1, cached.providers)
                ELSE p1
          providers == [r \in DOMAIN p2 \cup regions |->
                           IF r \in DOMAIN p2 THEN p2[r] ELSE <<>>]
          next ==
            [db |-> db1,
             raised |-> raised,
             results |-> IF raised THEN st.results
                         ELSE dict_set(st.results, film.imdb_id, providers),
             find_calls |->
                st.find_calls \cup
                  (IF refresh_regions # {} /\ fresh.find_called
                   THEN {film.imdb_id} ELSE {}),
             lookups |->
                st.lookups \cup
                  (IF refresh_regions # {}
                   THEN {<<film.imdb_id, l[1], l[2], l[3]>> : l \in fresh.lookups}
                   ELSE {})]
      IN  process_films(films, k + 1, next, regions, refresh_regions,
                        cached_regions, today_str, net)

\* "Update watchlist metadata for refreshed regions".
updated_meta_only_refreshed(m, csv_filename, regions_map, refresh_regions, today_str) ==
    IF refresh_regions = {} THEN m
    ELSE save_watchlist_meta(m, csv_filename,
                             [r \in refresh_regions |-> today_str])

updated_meta(m, csv_filename, regions_map, refresh_regions, today_str) ==
    IF refresh_regions = {} THEN m
    ELSE save_watchlist_meta(m, csv_filename,
            [r \in DOMAIN regions_map \cup refresh_regions |->
                IF r \in refresh_regions THEN today_str ELSE regions_map[r]])

process(selected_name, upload, selected_source, form_regions, refresh_mode, net) ==
    LET regions == IF form_regions = {} THEN {"GB"} ELSE form_regions
        is_new_upload_selected == upload.valid /\ selected_source = "uploaded"
        csv_filename == IF is_new_upload_selected THEN upload.filename
                        ELSE selected_name
        overwrite == is_new_upload_selected /\ csv_filename \in DOMAIN files
        old_films == IF overwrite THEN parse_imdb_csv(files, csv_filename).films
                     ELSE <<>>
        old_imdb_ids == film_ids(old_films)
        ids_in_other_lists ==
            IF overwrite
            THEN ids_in_other_watchlists(files, csv_filename, old_imdb_ids)
            ELSE {}
        files1 == IF is_new_upload_selected
                  THEN [f \in DOMAIN files \cup {csv_filename} |->
                           IF f = csv_filename THEN upload.content ELSE files[f]]
                  ELSE files
        found == csv_filename \in DOMAIN files1
        parsed == IF found THEN parse_imdb_csv(files1, csv_filename)
                  ELSE [ok |-> FALSE, films |-> <<>>]
        films == parsed.films
        new_ids == film_ids(films)
        stale == IF is_new_upload_selected
                 THEN old_only_ids(old_imdb_ids, new_ids, ids_in_other_lists)
                 ELSE {}
        regions_map == IF is_new_upload_selected THEN <<>>
                       ELSE load_watchlist_meta(meta, csv_filename)
        d == refresh_decision(is_new_upload_selected, regions, regions_map,
                              refresh_mode)
        loop == process_films(films, 1,
                            [db |-> film_cache, raised |-> FALSE,
                             results |-> <<>>, find_calls |-> {},
                             lookups |-> {}],
                            regions, d.refresh_regions, d.cached_regions,
                            today, net)
        base == [NoResp EXCEPT !.op = "process", !.file = csv_filename,
                               !.is_new = is_new_upload_selected,
                               !.overwrite = overwrite, !.regions = regions,
                               !.mode = refresh_mode,
                               !.uploaded = upload.valid,
                               !.source = selected_source,
                               !.old_ids = old_imdb_ids]
    IN  IF selected_name = <<>> /\ ~upload.valid
        THEN \* "Please upload a file or choose an existing one."
             /\ resp' = [NoResp EXCEPT !.op = "process", !.status = 400]
             /\ UNCHANGED <<today, files, meta, film_cache, calls>>
        ELSE IF ~is_new_upload_selected /\ selected_name = <<>>
        THEN \* the path is the uploads folder itself: not found, or not a file
             /\ resp' \in {[NoResp EXCEPT !.op = "process", !.status = 400],
                           [NoResp EXCEPT !.op = "process", !.status = 500,
                                          !.raised = TRUE]}
             /\ UNCHANGED <<today, files, meta, film_cache, calls>>
        ELSE IF ~found
        THEN \* "Selected file not found."
             /\ resp' = [base EXCEPT !.status = 400]
             /\ UNCHANGED <<today, files, meta, film_cache, calls>>
        ELSE IF ~parsed.ok
        THEN \* parse_imdb_csv raises, after the upload was saved
             /\ files' = files1
             /\ resp' = [base EXCEPT !.status = 500, !.raised = TRUE]
             /\ UNCHANGED <<today, meta, film_cache, calls>>
        ELSE \E st \in {loop} :    \* the film loop, run once
          IF st.raised
        THEN \* a request to TMDb raises in the film loop
             /\ files' = files1
             /\ film_cache' = st.db
             /\ resp' = [base EXCEPT !.status = 500, !.raised = TRUE,
                                     !.refresh_regions = d.refresh_regions,
                                     !.cached_regions = d.cached_regions,
                                     !.stale_ids = stale,
                                     !.find_calls = st.find_calls,
                                     !.lookups = st.lookups]
             /\ UNCHANGED <<today, meta, calls>>
        ELSE /\ files' = files1
             /\ film_cache' = st.db
             /\ meta' = updated_meta(meta, csv_filename, regions_map,
                                     d.refresh_regions, today)
             /\ resp' = [base EXCEPT !.status = 200,
                                     !.refresh_regions = d.refresh_regions,
                                     !.cached_regions = d.cached_regions,
                                     !.stale_ids = stale,
                                     !.find_calls = st.find_calls,
                                     !.lookups = st.lookups,
                                     !.results = st.results]
             /\ UNCHANGED <<today, calls>>

-----------------------------------------------------------------------------
(* The application *)

Tick ==
    /\ today < MaxDay
    /\ today' = today + 1
    /\ UNCHANGED <<files, meta, film_cache, resp, calls>>

Init ==
    /\ today = 1
    /\ files = <<>>
    /\ meta = <<>>
    /\ film_cache = <<>>
    /\ resp = NoResp
    /\ calls = NoCalls

FilmCount(name) ==
    IF name \in DOMAIN files THEN Cardinality(files[name].ids) ELSE 0

\* The service answers every request, and lists no provider.
ReachableNets(n) ==
    {net \in ProcessNets(n) : net.down = n + 1 /\ net.names = <<>>}

\* The answers of the service during a call over n titles: any, requests
\* that raise included, or those of a reachable service.
NetsFor(failing, n) == IF failing THEN ProcessNets(n) ELSE ReachableNets(n)

\* A process call that selects the newly uploaded file.
ProcessUpload(uploads, region_sets, modes, failing) ==
    \E upload \in uploads, form_regions \in region_sets, refresh_mode \in modes :
       \E net \in NetsFor(failing, Cardinality(upload.content.ids)) :
          process(<<>>, upload, "uploaded", form_regions, refresh_mode, net)

\* A process call that selects a file of the uploads folder.
ProcessExisting(names, region_sets, modes, failing) ==
    \E selected_name \in names, form_regions \in region_sets,
       refresh_mode \in modes :
       \E net \in NetsFor(failing, FilmCount(selected_name)) :
          process(selected_name, NoUpload, "existing", form_regions,
                  refresh_mode, net)

-----------------------------------------------------------------------------
(* Watchlists and the cache: uploads, overwrites and deletions of two       *)
(* watchlists, one region, one day, the service reachable                   *)

NextWatchlists ==
    \/ ProcessUpload(Uploads, {{}}, {"auto"}, FALSE)
    \/ ProcessExisting(FileNames, {{}}, {"auto", "refresh"}, FALSE)
    \/ \E filename \in FileNames : delete_file(filename)
    \/ delete_all

SpecWatchlists == Init /\ [][NextWatchlists]_vars

-----------------------------------------------------------------------------
(* Refreshing: one watchlist of one title over the days, any regions, any    *)
(* mode, overwritten by readable and unreadable uploads, the service        *)
(* failing or not                                                           *)

RefreshUploads ==
    {[valid |-> TRUE, filename |-> File_a, content |-> c] :
        c \in {Unparseable, [parses |-> TRUE, ids |-> {1}]}}

NextRefresh ==
    \/ ProcessUpload(RefreshUploads, SUBSET Regions \ {{}}, {"auto"}, TRUE)
    \/ ProcessExisting({File_a}, SUBSET Regions \ {{}}, Modes, TRUE)
    \/ delete_file(File_a)
    \/ Tick

SpecRefresh == Init /\ [][NextRefresh]_vars

-----------------------------------------------------------------------------
(* The refresh decision: one process call, with any form fields, on a       *)
(* watchlist whose metadata records any dates                               *)

DecideContent == [parses |-> TRUE, ids |-> {1}]
DecideUpload == [valid |-> TRUE, filename |-> File_a, content |-> DecideContent]

\* The cache row the earlier process calls left for the watchlist's title:
\* the title is unknown to the service, and each region recorded in the
\* metadata was fetched on its recorded day.
DecideCache(m) ==
    IF File_a \in DOMAIN m
    THEN sql_save(<<>>, 1,
                  [tmdb_id |-> None,
                   providers |-> [r \in DOMAIN m[File_a] |->
                                     DictEntry(m[File_a][r], <<>>)]])
    ELSE <<>>

InitDecide ==
    /\ today \in Days
    /\ files = [f \in {File_a} |-> DecideContent]
    /\ meta \in {<<>>} \cup
         UNION {[{File_a} -> [R -> 1..today]] : R \in SUBSET Regions \ {{}}}
    /\ film_cache = DecideCache(meta)
    /\ resp = NoResp
    /\ calls = NoCalls

NextDecide ==
    /\ resp.op = "none"
    /\ \E selected_name \in FileNames \cup {<<>>},
          upload \in {NoUpload, DecideUpload},
          selected_source \in {"existing", "uploaded"},
          form_regions \in SUBSET Regions, refresh_mode \in Modes :
          \E net \in ProcessNets(1) :
             process(selected_name, upload, selected_source, form_regions,
                     refresh_mode, net)

SpecDecide == InitDecide /\ [][NextDecide]_vars

-----------------------------------------------------------------------------
(* Properties *)

\* Whether the cached entry of `region` in a loaded row is dated `day`.
DatedEntry(row, region, day) ==
    /\ region \in DOMAIN row.providers
    /\ row.providers[region].shape = "dict"
    /\ row.providers[region].last_updated = day

CachedToday(db, imdb_id, region, day) ==
    imdb_id \in DOMAIN db /\ DatedEntry(sql_load(db, imdb_id), region, day)

\* The date a watchlist's metadata records for a region, None when none.
MetaDate(m, f, r) ==
    IF f \in DOMAIN m /\ r \in DOMAIN m[f] THEN m[f][r] ELSE None

\* The titles of the watchlists other than f.
IdsElsewhere(fs, f) == UNION {fs[g].ids : g \in DOMAIN fs \ {f}}

\* C1: in a call of get_providers_fresh, a requested region whose cached
\* entry is dated today is not looked up at the service, and the names
\* returned for it are the cached names.
C1_FreshRegionServedFromCache ==
    resp.op = "fresh" =>
      \A r \in Range(resp.region_list) :
        DatedEntry(resp.before, r, today) =>
          /\ \A l \in resp.lookups : l[4] # r
          /\ ~resp.raised => resp.providers[r] = resp.before.providers[r].names

C1_Witness ==
    /\ resp.op = "fresh"
    /\ ~resp.raised
    /\ \E r \in Range(resp.region_list) :
          /\ DatedEntry(resp.before, r, today)
          /\ resp.before.providers[r].names # <<>>
          /\ \E l \in resp.lookups : l[4] # r

\* C2: on one day, a (title, region) whose cached entry is dated today is
\* not looked up at the service by any call, and its entry stays dated today
\* while the title's row stays in the cache.
C2_NoRefetchSameDay ==
    [][today' = today =>
         /\ \A l \in resp'.lookups :
               ~CachedToday(film_cache, l[1], l[4], today)
         /\ \A i \in DOMAIN film_cache \cap DOMAIN film_cache', r \in Regions :
               CachedToday(film_cache, i, r, today)
                  => CachedToday(film_cache', i, r, today)]_vars

C2_Witness ==
    /\ resp.op = "process"
    /\ resp.status = 200
    /\ \E l \in resp.lookups, r \in resp.refresh_regions :
          /\ r # l[4]
          /\ \A k \in resp.lookups : ~(k[1] = l[1] /\ k[4] = r)
          /\ CachedToday(film_cache, l[1], r, today)

\* C3: no delete or overwrite removes the cache row of a title that a
\* watchlist existing after the operation holds.
C3_ReferencedRowsKept ==
    [][resp'.op \in {"delete", "process"} =>
         \A i \in DOMAIN film_cache \ DOMAIN film_cache' :
            \A g \in DOMAIN files' : i \notin files'[g].ids]_vars

\* C4: deleting a watchlist removes the cache row of each of its titles that
\* no remaining watchlist holds, and removes the watchlist's file and
\* metadata.
C4_DeleteRemovesUnreferenced ==
    [][resp'.op = "delete" =>
         /\ resp'.file \notin DOMAIN files'
         /\ resp'.file \notin DOMAIN meta'
         /\ \A i \in (IF resp'.file \in DOMAIN files
                      THEN files[resp'.file].ids ELSE {}) :
               (\A g \in DOMAIN files' : i \notin files'[g].ids)
                  => i \notin DOMAIN film_cache']_vars

C4_Witness ==
    /\ resp.op = "delete"
    /\ resp.deleted_ids # {}
    /\ resp.deleted_ids \cap DOMAIN film_cache = {}
    /\ \E g \in DOMAIN files : files[g].ids \cap DOMAIN film_cache # {}

\* C5: overwriting a watchlist removes the cache row of every title that was
\* in the old content and is neither in the new content nor in another
\* watchlist.
C5_OverwriteRemovesOrphans ==
    [][(resp'.op = "process" /\ resp'.overwrite /\ resp'.status = 200) =>
         \A i \in files[resp'.file].ids :
            (i \notin files'[resp'.file].ids
               /\ i \notin IdsElsewhere(files', resp'.file))
              => i \notin DOMAIN film_cache']_vars

\* C6: overwriting a watchlist with the content it already has removes no
\* cache record: every row of the cache stays, and no title's cache file is
\* chosen for removal.
C6_IdenticalOverwriteKeepsCache ==
    [][(resp'.op = "process" /\ resp'.overwrite
          /\ files'[resp'.file] = files[resp'.file]) =>
         /\ DOMAIN film_cache \subseteq DOMAIN film_cache'
         /\ resp'.stale_ids = {}]_vars

C6_Witness ==
    /\ resp.op = "process"
    /\ resp.overwrite
    /\ resp.status = 200
    /\ resp.old_ids # {}
    /\ resp.old_ids = files[resp.file].ids
    /\ resp.old_ids \subseteq DOMAIN film_cache
    /\ resp.find_calls = {}

\* C7: a process call marks a requested region to-refresh exactly when the
\* uploaded file is the selected source, or the metadata records no date for
\* the region, or the mode is "refresh"; the other requested regions are
\* use-cached, whatever the mode otherwise.
C7_RefreshDecision ==
    [][(resp'.op = "process" /\ resp'.status = 200) =>
         /\ resp'.refresh_regions =
              {r \in resp'.regions :
                  \/ (resp'.uploaded /\ resp'.source = "uploaded")
                  \/ MetaDate(meta, resp'.file, r) = None
                  \/ resp'.mode = "refresh"}
         /\ resp'.cached_regions = resp'.regions \ resp'.refresh_regions]_vars

C7_Witness ==
    /\ resp.op = "process"
    /\ resp.status = 200
    /\ ~(resp.uploaded /\ resp.source = "uploaded")
    /\ resp.mode = "use_saved"
    /\ resp.refresh_regions # {}
    /\ resp.cached_regions # {}

\* C8, as claimed: after a completed process call the metadata dates every
\* to-refresh region today and leaves the date of every other region as it
\* was.
C8_OtherDatesUnchanged ==
    [][(today' = today /\ resp'.op = "process" /\ resp'.status = 200) =>
         \A r \in Regions :
            IF r \in resp'.refresh_regions
            THEN MetaDate(meta', resp'.file, r) = today
            ELSE MetaDate(meta', resp'.file, r) = MetaDate(meta, resp'.file, r)]_vars

\* C8, amended: after a completed process call the metadata dates every
\* to-refresh region today; the date of every other region is as it was,
\* except that a call which overwrites the watchlist with a new upload leaves
\* no date for the regions it did not request.
C8_DatesAfterProcess ==
    [][(today' = today /\ resp'.op = "process" /\ resp'.status = 200) =>
         \A r \in Regions :
            IF r \in resp'.refresh_regions
            THEN MetaDate(meta', resp'.file, r) = today
            ELSE IF resp'.overwrite
            THEN MetaDate(meta', resp'.file, r) = None
            ELSE MetaDate(meta', resp'.file, r) = MetaDate(meta, resp'.file, r)]_vars

C8_Witness ==
    /\ resp.op = "process"
    /\ resp.status = 200
    /\ \E r \in resp.refresh_regions, c \in resp.cached_regions :
          /\ MetaDate(meta, resp.file, r) = today
          /\ MetaDate(meta, resp.file, c) # None
          /\ MetaDate(meta, resp.file, c) < today

\* C9: after a process call that overwrites a watchlist with a new upload,
\* no region date recorded for the old content survives: every region the
\* stored map holds is a region requested in the call, dated today.
C9_OverwriteDiscardsOldDates ==
    [][(today' = today /\ resp'.op = "process" /\ resp'.overwrite) =>
         \A r \in Regions :
            MetaDate(meta', resp'.file, r) # None =>
               /\ r \in resp'.regions
               /\ MetaDate(meta', resp'.file, r) = today]_vars

\* C10: get_providers_cached returns a map over exactly the requested
\* regions, each with its stored names, or the empty list when the region
\* has no entry; for a title without a row every list is empty and the id is
\* None.
C10_CachedOnly ==
    resp.op = "cached" =>
      /\ DOMAIN resp.providers = Range(resp.region_list)
      /\ \A r \in Range(resp.region_list) :
            resp.providers[r] =
               IF r \in DOMAIN resp.before.providers
               THEN resp.before.providers[r].names ELSE <<>>
      /\ ~resp.before.found =>
            /\ resp.tmdb_id = None
            /\ \A r \in Range(resp.region_list) : resp.providers[r] = <<>>

C10_Witness ==
    /\ resp.op = "cached"
    /\ resp.before.found
    /\ \E r, q \in Range(resp.region_list) :
          /\ r \in DOMAIN resp.before.providers
          /\ resp.providers[r] # <<>>
          /\ q \notin DOMAIN resp.before.providers
          /\ resp.providers[q] = <<>>

\* Whether a requested region is stale for a call made on `day`: the loaded
\* row has no entry for it, a bare list, or an entry of another date.
Stale(row, region, day) == ~DatedEntry(row, region, day)

\* C11: a call of get_providers_fresh that returns gives the TMDb id, null
\* or the id of the title, and a mapping whose keys are exactly the requested
\* regions, each with a list of names, whatever the regions' freshness and
\* whether the title had a row or not.
C11_ResultCoversRequested ==
    (resp.op = "fresh" /\ ~resp.raised) =>
      /\ resp.tmdb_id \in {None, TmdbOf(resp.imdb_id)}
      /\ DOMAIN resp.providers = Range(resp.region_list)
      /\ \A r \in Range(resp.region_list) : resp.providers[r] \in NameLists

C11_Witness ==
    /\ resp.op = "fresh"
    /\ ~resp.raised
    /\ resp.before.found
    /\ \E r, q \in Range(resp.region_list) :
          /\ DatedEntry(resp.before, r, today)
          /\ Stale(resp.before, q, today)
    /\ DOMAIN resp.providers = Range(resp.region_list)

\* C12: a failure of the find request or of an availability request is never
\* raised out of get_providers_fresh.
C12_ServiceFailuresAbsorbed == resp.op = "fresh" => ~resp.raised

\* C13: in the row that a call of get_providers_fresh saves, every region's
\* entry, requested in the call or not, is an object with last_updated and
\* names, never a bare list.
C13_PersistedEntriesDated ==
    (resp.op = "fresh" /\ ~resp.raised) =>
      LET saved == sql_load(film_cache, resp.imdb_id)
      IN  /\ saved.found
          /\ \A r \in DOMAIN saved.providers :
                saved.providers[r].shape = "dict"

\* C14: after sql_save(imdb_id, data), sql_load(imdb_id) finds a row with the
\* id that was written, null included, and the names that were written for
\* each region; a write for an id that has a row replaces that row: the
\* table has the rows it had, and the row of the id holds the new data.
C14_SaveThenLoad ==
    [][resp'.op \in {"save", "save again"} =>
         LET got == sql_load(film_cache', resp'.imdb_id)
             data == resp'.saved
         IN  /\ got.found
             /\ got.tmdb_id = data.tmdb_id
             /\ DOMAIN got.providers = DOMAIN data.providers
             /\ \A r \in DOMAIN data.providers :
                   extract_entry(got.providers[r])[2]
                     = extract_entry(data.providers[r])[2]
             /\ DOMAIN film_cache' = DOMAIN film_cache \cup {resp'.imdb_id}
             /\ \A i \in DOMAIN film_cache \ {resp'.imdb_id} :
                   film_cache'[i] = film_cache[i]]_vars

C14_Witness ==
    /\ resp.op = "save again"
    /\ resp.before.found
    /\ resp.before.tmdb_id # resp.saved.tmdb_id
    /\ resp.before.providers # resp.saved.providers
    /\ resp.saved.tmdb_id = None
    /\ sql_load(film_cache, resp.imdb_id).providers = resp.saved.providers

\* Whether a line has an identifier that is not blank once trimmed.
HasIdentifier(row) ==
    ColumnIndex("Const") <= row.n /\ strip(row.text["Const"]) # <<>>

\* C15: parse_imdb_csv returns one film per line that has a non-blank
\* identifier, in the order of the lines; a line whose identifier is blank
\* or missing is dropped; a position, year, rating or runtime that does not
\* parse is null in the film and the line is kept.
C15_OneFilmPerIdentifiedRow ==
    resp.op = "parse" =>
      LET valid == SelectSeq(resp.rows, HasIdentifier)
      IN  /\ ~resp.raised
          /\ Len(resp.films) = Len(valid)
          /\ \A k \in 1..Len(valid) :
                /\ resp.films[k].imdb_id = strip(valid[k].text["Const"])
                /\ resp.films[k].position = to_int(row_get(valid[k], "Position"))
                /\ resp.films[k].year = to_int(row_get(valid[k], "Year"))
                /\ resp.films[k].rating
                     = to_float(row_get(valid[k], "IMDb Rating"))
                /\ resp.films[k].runtime
                     = to_int(row_get(valid[k], "Runtime (mins)"))

\* C16: a call of get_providers_fresh asks the find endpoint for the id
\* exactly when some requested region is stale and the row holds no id (or
\* there is no row): a null id is asked for again, a stored id never is, and
\* nothing is asked when every requested region is fresh.
C16_FindExactlyWhenStaleAndNoId ==
    resp.op = "fresh" =>
      (resp.find_calls # {}
         <=> /\ resp.before.tmdb_id = None
             /\ \E r \in Range(resp.region_list) :
                   Stale(resp.before, r, today))

C16_Witness ==
    /\ resp.op = "fresh"
    /\ resp.before.found
    /\ resp.before.tmdb_id = None
    /\ \E r \in DOMAIN resp.before.providers :
          resp.before.providers[r].shape = "dict"
    /\ resp.find_calls = {resp.imdb_id}
    /\ ~resp.raised
    /\ resp.tmdb_id = None

\* The names expected for a refreshed region: those the service answered,
\* none when the title has no id.
ExpectedNames(r) ==
    IF resp.tmdb_id = None THEN <<>> ELSE resp.answers[r]

\* C17: when a call of get_providers_fresh returns, every requested region
\* that was stale has, in the saved row, an entry dated today with the names
\* the availability request returned (no names when the id is null), the
\* call returns these names, and the availability request was sent for the
\* region exactly when the id is not null.
C17_StaleRegionRefreshed ==
    (resp.op = "fresh" /\ ~resp.raised) =>
      \A r \in Range(resp.region_list) :
        Stale(resp.before, r, today) =>
          /\ (\E l \in resp.lookups : l[4] = r) <=> resp.tmdb_id # None
          /\ sql_load(film_cache, resp.imdb_id).found
          /\ r \in DOMAIN sql_load(film_cache, resp.imdb_id).providers
          /\ sql_load(film_cache, resp.imdb_id).providers[r]
               = DictEntry(today, ExpectedNames(r))
          /\ resp.providers[r] = ExpectedNames(r)

C17_Witness ==
    /\ resp.op = "fresh"
    /\ ~resp.raised
    /\ resp.tmdb_id # None
    /\ \E r \in Range(resp.region_list) :
          /\ r \in DOMAIN resp.before.providers
          /\ resp.before.providers[r].shape = "list"
          /\ resp.answers[r] # <<>>
          /\ resp.answers[r] # resp.before.providers[r].names
          /\ sql_load(film_cache, resp.imdb_id).providers[r]
               = DictEntry(today, resp.answers[r])

\* C18: a call of get_providers_fresh leaves, in the stored row, the entry of
\* every region that was not requested and of every requested region that
\* was fresh as it was, and keeps a stored id that is not null; a call of
\* get_providers_cached changes nothing in the cache.
C18_OnlyStaleRegionsWritten ==
    [][/\ resp'.op = "fresh" =>
            LET old == sql_load(film_cache, resp'.imdb_id)
                new == sql_load(film_cache', resp'.imdb_id)
            IN  /\ \A r \in DOMAIN old.providers :
                      (r \notin Range(resp'.region_list)
                         \/ DatedEntry(old, r, today))
                        => /\ r \in DOMAIN new.providers
                           /\ new.providers[r] = old.providers[r]
                /\ old.tmdb_id # None => new.tmdb_id = old.tmdb_id
                /\ \A i \in DOMAIN film_cache \ {resp'.imdb_id} :
                      i \in DOMAIN film_cache' /\ film_cache'[i] = film_cache[i]
       /\ resp'.op = "cached" => film_cache' = film_cache]_vars

C18_Witness ==
    /\ resp.op = "fresh"
    /\ ~resp.raised
    /\ resp.before.tmdb_id # None
    /\ resp.lookups # {}
    /\ sql_load(film_cache, resp.imdb_id).tmdb_id = resp.before.tmdb_id
    /\ \E r \in DOMAIN resp.before.providers :
          /\ r \notin Range(resp.region_list)
          /\ sql_load(film_cache, resp.imdb_id).providers[r]
               = resp.before.providers[r]

\* The titles of all the watchlists of the folder.
ReferencedIds(fs) == UNION {fs[f].ids : f \in DOMAIN fs}

\* C19: while every watchlist of the folder parses, every row of the cache
\* belongs to a title that some watchlist holds.
C19_NoOrphanRows ==
    (\A f \in DOMAIN files : files[f].parses) =>
      DOMAIN film_cache \subseteq ReferencedIds(files)

\* C20: whenever the metadata of a watchlist records a date for a region,
\* every title of the watchlist has a row whose entry for the region is
\* dated, on that day or later.
C20_RecordedRegionsAreCached ==
    \A f \in DOMAIN files \cap DOMAIN meta :
      \A r \in DOMAIN meta[f] :
        \A i \in files[f].ids :
          /\ i \in DOMAIN film_cache
          /\ \E d \in meta[f][r]..MaxDay :
                DatedEntry(sql_load(film_cache, i), r, d)

\* C21: for a line of each raw title type of the parser's table, the media
\* type of the availability requests sent for its film, which is the
\* classification of the normalised type, is the classification of the raw
\* type.
C21_KindOfRawCategory ==
    resp.op = "kind" =>
      \A l \in resp.lookups :
        l[3] = imdb_type_to_tmdb_type(strip(resp.rows[1].text["Title Type"]))

\* The regions a thread refreshes: those it asked for that were stale in the
\* row it loaded.
Refreshes(c) ==
    {r \in Range(calls[c].regions) :
        Stale(sql_load(calls[c].loaded, 1), r, today)}

\* C22: when two calls of get_providers_fresh for one title have both saved,
\* the row holds the entries refreshed by the call that saved last; an entry
\* refreshed by the call that saved first, for a region the other call did
\* not ask for, is missing from the row when the other call had loaded the
\* row before that save (a lost update), and is in the row when the other
\* call loaded after it (the calls ran one after the other).
C22_LostUpdateWhenOverlapped ==
    (resp.op = "race" /\ Len(resp.results) = 2) =>
      LET first == resp.results[1]
          last == resp.results[2]
          final == sql_load(film_cache, 1)
      IN  /\ \A r \in Refreshes(last) : DatedEntry(final, r, today)
          /\ \A r \in Refreshes(first) \ Range(calls[last].regions) :
                IF calls[last].seen = 0
                THEN ~DatedEntry(final, r, today)
                ELSE DatedEntry(final, r, today)

C22_Witness ==
    /\ resp.op = "race"
    /\ Len(resp.results) = 2
    /\ calls[resp.results[2]].seen = 0
    /\ \E r \in Refreshes(resp.results[1]), q \in Refreshes(resp.results[2]) :
          /\ r \notin Range(calls[resp.results[2]].regions)
          /\ q \notin Range(calls[resp.results[1]].regions)
          /\ calls[resp.results[1]].net.find.id # None
          /\ calls[resp.results[1]].net.avail[r].names # <<>>
          /\ ~DatedEntry(sql_load(film_cache, 1), r, today)
          /\ DatedEntry(sql_load(film_cache, 1), q, today)

=============================================================================
